---- MODULE Spec2Model ----
(***************************************************************************)
(* Model of the release-changelog-builder action: the orchestrator `run`   *)
(* (src/src/main.ts), ReleaseNotesBuilder.build                            *)
(* (src/src/releaseNotesBuilder.ts), ReleaseNotes.pull and its helpers     *)
(* (src/unnamed/part_004) and Submodules.getSubmodules                     *)
(* (src/src/submodules.ts).  The program is one thread of control; every   *)
(* action below is the code between two suspension points (awaits), and    *)
(* the answer of the hosting service at an await is drawn with \E.         *)
(***************************************************************************)
EXTENDS Integers, Sequences, FiniteSets, TLC

VARIABLES
  pc,             \* position of run(): the await it is suspended at
  inputs,         \* the action inputs read at main.ts:29-43
  configuration,  \* the Configuration object shared by every builder
  loaded,         \* the configuration as resolveConfiguration returned it
  builder,        \* the ReleaseNotesBuilder whose build() is executing
  local,          \* locals of the executing build()/pull(): tagRange, commits, prs
  result,         \* main.ts `result`
  paths,          \* main.ts `submodule_paths`, the argument of getSubmodules
  pathIdx,        \* getSubmodules: index of the path being looked up
  headRef,        \* getSubmodules: `headRef` of the current path
  baseRef,        \* getSubmodules: `baseRef` of the current path
  modsInfo,       \* getSubmodules `modsInfo`, then main.ts `submodules`
  subIdx,         \* main.ts: index of the submodule being built
  appendix,       \* main.ts `appendix`
  outputs,        \* core.setOutput: name -> <<>> (unset) or <<value>>
  outFile,        \* writeOutput: <<>> (nothing written) or <<text>>
  failed,         \* core.setFailed: <<>> or <<message>>
  errors,         \* messages given to failOrError
  warnings,       \* messages given to core.warning
  builds,         \* one record per build() started: its arguments, requests, result
  lookups         \* the fetchRef requests issued by getSubmodules, in order

vars == <<pc, inputs, configuration, loaded, builder, local, result, paths,
          pathIdx, headRef, baseRef, modsInfo, subIdx, appendix, outputs,
          outFile, failed, errors, warnings, builds, lookups>>

-----------------------------------------------------------------------------
(* Bounds of the model *)

\* longest configured submodule_paths list
MaxPaths == 2

-----------------------------------------------------------------------------
(* Strings that the code inspects character by character are sequences of  *)
(* one-character strings; all other strings are TLA+ strings.              *)

\* /^[a-f0-9]{40}$/ : the length the pattern demands
ShaLen == 40

HexChars == {"a", "b", "c", "d", "e", "f",
             "0", "1", "2", "3", "4", "5", "6", "7", "8", "9"}

Rep(c, n) == [i \in 1..n |-> c]

\* the pattern without its length: /^[a-f0-9]+$/
sha1TestAnyLength(s) ==
  /\ Len(s) > 0
  /\ \A i \in 1..Len(s) : s[i] \in HexChars

\* sha1.test(s) for the pattern /^[a-f0-9]{40}$/
sha1Test(s) ==
  /\ Len(s) = ShaLen
  /\ \A i \in 1..Len(s) : s[i] \in HexChars

ShaA == Rep("a", ShaLen)
ShaB == Rep("b", ShaLen)
ShaC == Rep("c", ShaLen)
\* 40 characters, one of them outside [a-f0-9]
Bad40 == [i \in 1..ShaLen |-> IF i = ShaLen THEN "g" ELSE "a"]
\* hexadecimal but abbreviated
Short7 == <<"a", "b", "c", "d", "e", "f", "0">>
TagV1 == <<"v", "1">>
TagV2 == <<"v", "2">>

-----------------------------------------------------------------------------
(* Values *)

\* an absent optional value and a present one
None == <<>>
Some(x) == <<x>>

\* the pieces a text is made of: a text is a sequence of pieces
Null == [kind |-> "null"]
Lit(s) == [kind |-> "lit", s |-> s]
Newline == Lit("\n")

\* `${v}` in a template literal: null is spelled out
Str(v) == IF v = Null THEN Lit("null") ELSE v

\* TagInfo, and the absent tag of a TagResult
TagInfo(n, c) == [name |-> n, commit |-> c]
NoTag == [name |-> None, commit |-> None]

\* tag?.name : undefined when the tag is absent
NameOf(tag) == IF tag = NoTag THEN None ELSE Some(tag.name)

OwnerO == <<"o">>
RepoR == <<"r">>

UrlLib == <<"h", "t", "t", "p", "s", ":", "/", "/", "g", "i", "t", "h", "u", "b", ".", "c", "o", "m", "/", "o", "/", "l", "i", "b", ".", "g", "i", "t">>
UrlKit == <<"g", "i", "t", "@", "g", "i", "t", "h", "u", "b", ".", "c", "o", "m", ":", "o", "/", "k", "i", "t">>
UrlForeign == <<"h", "t", "t", "p", "s", ":", "/", "/", "g", "i", "t", "l", "a", "b", ".", "c", "o", "m", "/", "o", "/", "l", "i", "b">>
\* a repository whose name ends in the letters "git", and a URL without a
\* repository name
UrlDigit == <<"g", "i", "t", "@", "g", "i", "t", "h", "u", "b", ".", "c", "o", "m", ":", "o", "/", "d", "i", "g", "i", "t">>
UrlNoRepo == <<"h", "t", "t", "p", "s", ":", "/", "/", "g", "i", "t", "h", "u", "b", ".", "c", "o", "m", "/", "o", "/">>

PathSeq == <<"libs/a", "libs/b", "libs/c", "libs/d">>

\* CommitInfo (part_004:2); `mergeOf` stands for the summary "Merge branch
\* '<mergeOf>' ..." and is "" for any other summary
Commit(sha, date, mergeOf) ==
  [sha |-> sha, date |-> date, summary |-> <<"summary", sha>>,
   message |-> <<"message", sha>>, author |-> <<"author", sha>>,
   mergeOf |-> mergeOf]

\* PullRequestInfo (part_004:4)
PullRequest(number, mergeCommitSha, baseBranch, status) ==
  [number |-> number, title |-> "pr", body |-> "", author |-> "dev",
   mergeCommitSha |-> mergeCommitSha, baseBranch |-> baseBranch,
   status |-> status, mergedAt |-> 0, labels |-> {}, assignees |-> <<>>,
   requestedReviewers |-> <<>>, approvedReviewers |-> <<>>]

BranchMain == <<"m", "a", "i", "n">>
BranchDev == <<"d", "e", "v">>
BranchFix == <<"f", "i", "x">>

\* Configuration (part_003:78-100), the fields the pipeline stages read
DefaultConfiguration ==
  [template |-> "${{CHANGELOG}}",
   empty_template |-> "- no changes",
   submodule_template |->
     "### Submodule [${{OWNER}}/${{REPO}}](http://github.com/${{OWNER}}/${{REPO})\n\n${{CHANGELOG}}**Miscellaneous**\n${{UNCATEGORIZED}}\n",
   submodule_empty_template |->
     "### Submodule [${{OWNER}}/${{REPO}}](http://github.com/${{OWNER}}/${{REPO})\n\nNo changes.",
   submodule_paths |-> <<>>,
   exclude_merge_branches |-> <<>>,
   base_branches |-> <<>>,
   max_back_track_time_days |-> 365]

-----------------------------------------------------------------------------
(* Pure helpers of the pipeline *)

Max(S) == CHOOSE x \in S : \A y \in S : y <= x

\* s.trim()
RECURSIVE Trim(_)
Trim(s) ==
  IF s = <<>> THEN s
  ELSE IF Head(s) = " " THEN Trim(Tail(s))
  ELSE IF s[Len(s)] = " " THEN Trim(SubSeq(s, 1, Len(s) - 1))
  ELSE s

\* the two alternatives of the group `base` of the pattern of getRepoInfo;
\* the unescaped dot of "github.com" matches any character
HttpsBase == <<"h", "t", "t", "p", "s", ":", "/", "/", "g", "i", "t", "h", "u", "b", "ANY", "c", "o", "m", "/">>
SshBase == <<"g", "i", "t", "@", "g", "i", "t", "h", "u", "b", "ANY", "c", "o", "m", ":">>

PrefixMatches(url, pattern) ==
  /\ Len(url) >= Len(pattern)
  /\ \A i \in 1..Len(pattern) : pattern[i] = "ANY" \/ url[i] = pattern[i]

\* repo.replace(/.git$/, '') : any one character followed by "git" at the end
StripGit(repo) ==
  IF /\ Len(repo) >= 4
     /\ SubSeq(repo, Len(repo) - 2, Len(repo)) = <<"g", "i", "t">>
  THEN SubSeq(repo, 1, Len(repo) - 4)
  ELSE repo

\* Submodules.getRepoInfo: /^(?<base>...)(?<owner>.+)\/(?<repo>.+)?$/ ; the
\* greedy owner group runs up to the last slash, the repo group is optional
\* and `match.groups.repo.replace` throws a TypeError when it did not take part
getRepoInfo(submoduleUrl) ==
  LET base == IF PrefixMatches(submoduleUrl, HttpsBase) THEN HttpsBase
              ELSE IF PrefixMatches(submoduleUrl, SshBase) THEN SshBase
              ELSE <<>>
      rest == SubSeq(submoduleUrl, Len(base) + 1, Len(submoduleUrl))
      slashes == {k \in 2..Len(rest) : rest[k] = "/"}
  IN  IF base = <<>> \/ slashes = {} THEN [kind |-> "undefined"]
      ELSE LET k == Max(slashes)
               repo == SubSeq(rest, k + 1, Len(rest))
           IN  IF repo = <<>> THEN [kind |-> "throw"]
               ELSE [kind |-> "info",
                     baseUrl |-> Trim(SubSeq(submoduleUrl, 1, Len(base))),
                     owner |-> SubSeq(rest, 1, k - 1),
                     repo |-> Trim(StripGit(repo))]

\* failOrError(message, failOnError) of utils: whether the call raises
failOrErrorThrows(failOnError) == failOnError

\* filterCommits(commits, excludeMergeBranches) of commits
filterCommits(commits, excludeMergeBranches) ==
  SelectSeq(commits, LAMBDA c :
    \A i \in 1..Len(excludeMergeBranches) : c.mergeOf # excludeMergeBranches[i])

\* baseBranch.replace('\\\\', '\\') : the first pair of backslashes becomes one
RECURSIVE ReplaceBackslashes(_)
ReplaceBackslashes(p) ==
  IF Len(p) < 2 THEN p
  ELSE IF p[1] = "\\" /\ p[2] = "\\" THEN Tail(p)
  ELSE <<Head(p)>> \o ReplaceBackslashes(Tail(p))

\* text.match(new RegExp(pattern, 'gu')) !== null, for a pattern of literal
\* characters: the pattern occurs somewhere in the text
RegExpMatches(text, pattern) ==
  \E i \in 0..(Len(text) - Len(pattern)) :
    SubSeq(text, i + 1, i + Len(pattern)) = pattern

\* fillAdditionalPlaceholders(text, options) of transform
fillAdditionalPlaceholders(text, options) ==
  [kind |-> "filled", template |-> text, owner |-> options.owner,
   repo |-> options.repo, fromTag |-> options.fromTag, toTag |-> options.toTag]

\* buildChangelog(prs, options) of transform
buildChangelog(prs, options) ==
  [kind |-> "changelog", template |-> options.configuration.template,
   prs |-> prs, owner |-> options.owner, repo |-> options.repo,
   fromTag |-> options.fromTag, toTag |-> options.toTag]

\* a || b for strings
OrElse(a, b) == IF a # "" THEN a ELSE b

\* a || b for an optional number: undefined and 0 give b
OrDefault(a, b) == IF a = None \/ a = Some(0) THEN b ELSE a[1]

-----------------------------------------------------------------------------
(* run() as a state machine.  S is the current state as a record; every    *)
(* step is a pure function from S (and the answer of the hosting service)  *)
(* to the next state, applied by Assign.                                   *)

S == [pc |-> pc, inputs |-> inputs, configuration |-> configuration,
      loaded |-> loaded, builder |-> builder, local |-> local,
      result |-> result, paths |-> paths, pathIdx |-> pathIdx,
      headRef |-> headRef, baseRef |-> baseRef, modsInfo |-> modsInfo,
      subIdx |-> subIdx, appendix |-> appendix, outputs |-> outputs,
      outFile |-> outFile, failed |-> failed, errors |-> errors,
      warnings |-> warnings, builds |-> builds, lookups |-> lookups]

Assign(n) ==
  /\ pc' = n.pc
  /\ inputs' = n.inputs
  /\ configuration' = n.configuration
  /\ loaded' = n.loaded
  /\ builder' = n.builder
  /\ local' = n.local
  /\ result' = n.result
  /\ paths' = n.paths
  /\ pathIdx' = n.pathIdx
  /\ headRef' = n.headRef
  /\ baseRef' = n.baseRef
  /\ modsInfo' = n.modsInfo
  /\ subIdx' = n.subIdx
  /\ appendix' = n.appendix
  /\ outputs' = n.outputs
  /\ outFile' = n.outFile
  /\ failed' = n.failed
  /\ errors' = n.errors
  /\ warnings' = n.warnings
  /\ builds' = n.builds
  /\ lookups' = n.lookups

\* new ReleaseNotesBuilder(...) : the constructor arguments it keeps
ReleaseNotesBuilder(kind, repositoryPath, owner, repo, fromTag, toTag, in) ==
  [kind |-> kind, repositoryPath |-> repositoryPath, owner |-> owner,
   repo |-> repo, fromTag |-> fromTag, toTag |-> toTag,
   includeOpen |-> in.includeOpen, failOnError |-> in.failOnError,
   fetchReviewers |-> in.fetchReviewers, commitMode |-> in.commitMode]

NoRange == [from |-> NoTag, to |-> NoTag]
NoLocal == [tagRange |-> NoRange, commits |-> <<>>, prs |-> <<>>,
            revIdx |-> 0, fromDate |-> 0, toDate |-> 0]
NoRef == [kind |-> "none"]

\* the record of a build() that starts
BuildRecord(b) ==
  [kind |-> b.kind, repositoryPath |-> b.repositoryPath,
   owner |-> b.owner, repo |-> b.repo,
   fromTag |-> b.fromTag, toTag |-> b.toTag,  \* as given to the constructor
   failOnError |-> b.failOnError,
   calls |-> {},         \* the requests and renderings of this build
   tagRange |-> None,    \* the tag range its checks were made on
   diff |-> None,        \* the number of commits getDiff answered
   commits |-> None,     \* the commits getDiff answered
   window |-> None,      \* the dates given to getBetweenDates
   merged |-> None,      \* the pull requests getBetweenDates answered
   correlated |-> None,  \* `mergedPullRequests` of getMergedPullRequests
   open |-> None,        \* the pull requests getOpen answered
   all |-> None,         \* `allPullRequests` of getMergedPullRequests
   reviews |-> <<>>,     \* the answers to the reviewer requests, in order
   thrown |-> {},        \* the requests of this build that failed
   prs |-> None,         \* the pull requests pull() ended with
   ret |-> None]         \* the value build() returned

\* a request or a call of the executing build is noted in its record
Note(s, call) ==
  [s EXCEPT !.builds[Len(s.builds)].calls = @ \cup {call}]

\* a request of the executing build has failed
Thrown(s, call) ==
  [s EXCEPT !.builds[Len(s.builds)].thrown = @ \cup {call}]

\* core.setOutput(name, value)
SetOut(s, name, value) == [s EXCEPT !.outputs[name] = Some(value)]

\* a logged or thrown message and what it is about
Message(text, subject) == <<text, subject>>

\* core.warning(message)
Warn(s, message) == [s EXCEPT !.warnings = @ \cup {message}]

\* a catch that marks the failure and lets run() go on to its outputs
CatchResumes(s, message) ==
  [s EXCEPT !.pc = "setOutput", !.failed = Some(message)]

\* main.ts:115-117 : the catch of run()
Catch(s, message) ==
  [s EXCEPT !.pc = "end", !.failed = Some(message)]

\* failOrError(message, failOnError) followed by the code after it, whose
\* effect on s is `next`
FailOrError(s, message, failOnError, next) ==
  IF failOrErrorThrows(failOnError)
  THEN Catch([s EXCEPT !.errors = @ \cup {message}], message)
  ELSE [next EXCEPT !.errors = @ \cup {message}]

\* a build that hands over to submodule detection whenever it returns
BuildReturnDetectsAgain(s, value) ==
  LET r == [s EXCEPT !.builds[Len(s.builds)].ret = Some(value),
                     !.local = NoLocal]
  IN  IF s.builder.kind = "top"
      THEN [r EXCEPT !.result = <<value>>, !.pc = "getSubmodules"]
      ELSE [r EXCEPT !.appendix = @ \o <<Str(value), Newline>>,
                     !.subIdx = @ + 1,
                     !.pc = "getSubmodules"]

\* `return value` of build(): main.ts:51-65 receives the top-level result,
\* main.ts:96 appends a nested one to the appendix
BuildReturn(s, value) ==
  LET r == [s EXCEPT !.builds[Len(s.builds)].ret = Some(value),
                     !.local = NoLocal]
  IN  IF s.builder.kind = "top"
      THEN [r EXCEPT !.result = <<value>>, !.pc = "getSubmodules"]
      ELSE [r EXCEPT !.appendix = @ \o <<Str(value), Newline>>,
                     !.subIdx = @ + 1,
                     !.pc = "nested"]

\* releaseNotesBuilder.ts:27-72 : owner and repo, then the tag range
buildStart(s) ==
  LET b == s.builder IN
  IF b.owner = <<>>
  THEN FailOrError(s, Message("Missing or couldn't resolve 'owner'", ""), b.failOnError,
                   BuildReturn(s, Null))
  ELSE
    LET s1 == SetOut(s, "owner", b.owner) IN
    IF b.repo = <<>>
    THEN FailOrError(s1, Message("Missing or couldn't resolve 'owner'", ""), b.failOnError,
                     BuildReturn(s1, Null))
    ELSE
      LET s2 == SetOut(s1, "repo", b.repo) IN
      IF /\ b.fromTag # <<>> /\ sha1Test(b.fromTag)
         /\ b.toTag # <<>> /\ sha1Test(b.toTag)
      THEN [s2 EXCEPT !.local.tagRange =
                         [from |-> TagInfo(b.fromTag, b.fromTag),
                          to |-> TagInfo(b.toTag, b.toTag)],
                      !.pc = "checkTags"]
      ELSE [Note(s2, "retrieveRange") EXCEPT !.pc = "retrieveRange"]

\* releaseNotesBuilder.ts:61-72 : the answer of Tags.retrieveRange
retrieveRangeReturn(s, resp) ==
  IF resp.kind = "throw"
  THEN Catch(Thrown(s, "retrieveRange"), Message("request failed", ""))
  ELSE [s EXCEPT !.local.tagRange = resp.range, !.pc = "checkTags"]

\* the tag checks without the one of the previous tag: the comparison is
\* asked for from the fromTag the builder was given
buildCheckTagsWithoutFromCheck(s) ==
  LET b == s.builder
      thisTag == NameOf(s.local.tagRange.to)
      s0 == [s EXCEPT !.builds[Len(s.builds)].tagRange = Some(s.local.tagRange)]
  IN
  IF thisTag = None \/ thisTag[1] = <<>>
  THEN FailOrError(s0, Message("Missing or couldn't resolve 'toTag'", ""), b.failOnError,
                   BuildReturn(s0, Null))
  ELSE
    LET s1 == SetOut([s0 EXCEPT !.builder.toTag = thisTag[1]],
                     "toTag", thisTag[1])
    IN  [Note(s1, "getDiff") EXCEPT !.pc = "getDiff"]

\* releaseNotesBuilder.ts:73-112 and part_004:25-29,60-67 : the resolved
\* tags are checked and published, then pull() asks for the commit range
buildCheckTags(s) ==
  LET b == s.builder
      thisTag == NameOf(s.local.tagRange.to)
      previousTag == NameOf(s.local.tagRange.from)
      s0 == [s EXCEPT !.builds[Len(s.builds)].tagRange = Some(s.local.tagRange)]
  IN
  IF thisTag = None \/ thisTag[1] = <<>>
  THEN FailOrError(s0, Message("Missing or couldn't resolve 'toTag'", ""), b.failOnError,
                   BuildReturn(s0, Null))
  ELSE
    LET s1 == SetOut([s0 EXCEPT !.builder.toTag = thisTag[1]],
                     "toTag", thisTag[1]) IN
    IF previousTag = None
    THEN FailOrError(s1, Message("Unable to retrieve previous tag", ""), b.failOnError,
                     BuildReturn(s1, Null))
    ELSE
      LET s2 == SetOut([s1 EXCEPT !.builder.fromTag = previousTag[1]],
                       "fromTag", previousTag[1])
      IN  [Note(s2, "getDiff") EXCEPT !.pc = "getDiff"]

\* releaseNotesBuilder.ts:97-108 : the options of the ReleaseNotes
Options(s) ==
  [owner |-> s.builder.owner, repo |-> s.builder.repo,
   fromTag |-> s.builder.fromTag, toTag |-> s.builder.toTag,
   includeOpen |-> s.builder.includeOpen,
   failOnError |-> s.builder.failOnError,
   fetchReviewers |-> s.builder.fetchReviewers,
   commitMode |-> s.builder.commitMode,
   configuration |-> s.configuration]

\* the end of pull() without the test for an empty list: whatever the list,
\* it is rendered
pullReturnAlwaysRenders(s, mergedPullRequests) ==
  LET o == Options(s)
      s0 == [s EXCEPT !.builds[Len(s.builds)].prs = Some(mergedPullRequests)]
      s1 == IF ~o.commitMode
            THEN SetOut(s0, "pull_requests",
                        [i \in 1..Len(mergedPullRequests) |->
                           mergedPullRequests[i].number])
            ELSE s0
  IN  BuildReturn(Note(s1, "buildChangelog"),
                  buildChangelog(mergedPullRequests, o))

\* the end of pull() setting the pull_requests output in commit mode too
pullReturnPublishesInBothModes(s, mergedPullRequests) ==
  LET o == Options(s)
      s0 == [s EXCEPT !.builds[Len(s.builds)].prs = Some(mergedPullRequests)]
      s1 == SetOut(s0, "pull_requests",
                   [i \in 1..Len(mergedPullRequests) |->
                      mergedPullRequests[i].number])
  IN  IF Len(mergedPullRequests) = 0
      THEN BuildReturn(
             Warn(s1, Message("No pull requests found", "")),
             fillAdditionalPlaceholders(
               OrElse(o.configuration.empty_template,
                      DefaultConfiguration.empty_template), o))
      ELSE BuildReturn(Note(s1, "buildChangelog"),
                       buildChangelog(mergedPullRequests, o))

\* part_004:31-57 and releaseNotesBuilder.ts:111-118 : the end of pull() and
\* the value build() returns
pullReturn(s, mergedPullRequests) ==
  LET o == Options(s)
      s0 == [s EXCEPT !.builds[Len(s.builds)].prs = Some(mergedPullRequests)]
      s1 == IF ~o.commitMode
            THEN SetOut(s0, "pull_requests",
                        [i \in 1..Len(mergedPullRequests) |->
                           mergedPullRequests[i].number])
            ELSE s0
  IN  IF Len(mergedPullRequests) = 0
      THEN BuildReturn(
             Warn(s1, Message("No pull requests found", "")),
             fillAdditionalPlaceholders(
               OrElse(o.configuration.empty_template,
                      DefaultConfiguration.empty_template), o))
      ELSE BuildReturn(Note(s1, "buildChangelog"),
                       buildChangelog(mergedPullRequests, o))

\* part_004:218-237 : the synthetic pull request of a commit
CommitPR(commit) ==
  [number |-> 0, title |-> commit.summary, body |-> commit.message,
   author |-> commit.author, mergeCommitSha |-> commit.sha,
   baseBranch |-> <<>>, status |-> "merged", mergedAt |-> commit.date,
   labels |-> {}, assignees |-> <<>>, requestedReviewers |-> <<>>,
   approvedReviewers |-> <<>>]

\* the window starting at the earlier of the two dates
FromDateEarlier(commits, maxDays) ==
  LET fromDate == commits[1].date
      toDate == commits[Len(commits)].date
      maxFromDate == toDate - maxDays
  IN  IF maxFromDate < fromDate THEN maxFromDate ELSE fromDate

\* part_004:94-106 : the date window of the pull-request listing
FromDate(commits, maxDays) ==
  LET fromDate == commits[1].date
      toDate == commits[Len(commits)].date
      maxFromDate == toDate - maxDays
  IN  IF maxFromDate > fromDate THEN maxFromDate ELSE fromDate

\* commit mode making a pull request of every commit of the range, the
\* merges from excluded branches included
afterCommitHistoryEveryCommit(s, commits) ==
  LET o == Options(s)
      c == o.configuration
  IN  IF Len(commits) = 0 THEN pullReturn(s, <<>>)
      ELSE IF o.commitMode
      THEN pullReturn(s, [i \in 1..Len(commits) |-> CommitPR(commits[i])])
      ELSE LET maxDays == OrDefault(c.max_back_track_time_days,
                                    DefaultConfiguration.max_back_track_time_days)
           IN  [Note(s, "getBetweenDates") EXCEPT
                  !.builds[Len(s.builds)].window =
                     Some([fromDate |-> FromDate(commits, maxDays),
                           toDate |-> commits[Len(commits)].date]),
                  !.local.commits = commits,
                  !.local.fromDate = FromDate(commits, maxDays),
                  !.local.toDate = commits[Len(commits)].date,
                  !.pc = "getBetweenDates"]

\* part_004:89-119 and 205-237 : what the caller of getCommitHistory does
\* with the commits
afterCommitHistory(s, commits) ==
  LET o == Options(s)
      c == o.configuration
  IN  IF Len(commits) = 0 THEN pullReturn(s, <<>>)
      ELSE IF o.commitMode
      THEN LET prCommits == filterCommits(commits, c.exclude_merge_branches)
           IN  pullReturn(s, [i \in 1..Len(prCommits) |-> CommitPR(prCommits[i])])
      ELSE LET maxDays == OrDefault(c.max_back_track_time_days,
                                    DefaultConfiguration.max_back_track_time_days)
           IN  [Note(s, "getBetweenDates") EXCEPT
                  !.builds[Len(s.builds)].window =
                     Some([fromDate |-> FromDate(commits, maxDays),
                           toDate |-> commits[Len(commits)].date]),
                  !.local.commits = commits,
                  !.local.fromDate = FromDate(commits, maxDays),
                  !.local.toDate = commits[Len(commits)].date,
                  !.pc = "getBetweenDates"]

\* getCommitHistory reporting an empty range the way it reports a failed
\* comparison
getDiffReturnEmptyIsError(s, resp) ==
  IF resp.kind = "throw"
  THEN FailOrError(Thrown(s, "getDiff"),
                   Message("Failed to retrieve - Invalid tag?", ""),
                   s.builder.failOnError,
                   afterCommitHistory(Thrown(s, "getDiff"), <<>>))
  ELSE
    LET s1 == [s EXCEPT !.builds[Len(s.builds)].diff = Some(Len(resp.commits)),
                        !.builds[Len(s.builds)].commits = Some(resp.commits)]
    IN  IF Len(resp.commits) = 0
        THEN FailOrError(s1, Message("No commits found", ""),
                         s.builder.failOnError, afterCommitHistory(s1, <<>>))
        ELSE afterCommitHistory(s1, resp.commits)

\* part_004:60-81 : getCommitHistory receives the answer of getDiff
getDiffReturn(s, resp) ==
  IF resp.kind = "throw"
  THEN FailOrError(Thrown(s, "getDiff"),
                   Message("Failed to retrieve - Invalid tag?", ""),
                   s.builder.failOnError,
                   afterCommitHistory(Thrown(s, "getDiff"), <<>>))
  ELSE
    LET s1 == [s EXCEPT !.builds[Len(s.builds)].diff = Some(Len(resp.commits)),
                        !.builds[Len(s.builds)].commits = Some(resp.commits)]
    IN  IF Len(resp.commits) = 0
        THEN afterCommitHistory(Warn(s1, Message("No commits found", "")), <<>>)
        ELSE afterCommitHistory(s1, resp.commits)

\* the base-branch filter asking for a match of every pattern
afterOpenEveryPattern(s, allPullRequests) ==
  LET o == Options(s)
      baseBranches == o.configuration.base_branches
      finalPrs ==
        SelectSeq(allPullRequests, LAMBDA pr :
          Len(baseBranches) # 0 =>
            \A i \in 1..Len(baseBranches) :
              RegExpMatches(pr.baseBranch, ReplaceBackslashes(baseBranches[i])))
      s1 == [s EXCEPT !.builds[Len(s.builds)].all = Some(allPullRequests)]
  IN  IF o.fetchReviewers /\ Len(finalPrs) > 0
      THEN [Note(s1, "getReviewers") EXCEPT
              !.local.prs = finalPrs, !.local.revIdx = 1,
              !.pc = "getReviewers"]
      ELSE pullReturn(s1, finalPrs)

\* part_004:167-197 : the base-branch filter, then the reviewers
afterOpen(s, allPullRequests) ==
  LET o == Options(s)
      baseBranches == o.configuration.base_branches
      finalPrs ==
        SelectSeq(allPullRequests, LAMBDA pr :
          Len(baseBranches) # 0 =>
            \E i \in 1..Len(baseBranches) :
              RegExpMatches(pr.baseBranch, ReplaceBackslashes(baseBranches[i])))
      s1 == [s EXCEPT !.builds[Len(s.builds)].all = Some(allPullRequests)]
  IN  IF o.fetchReviewers /\ Len(finalPrs) > 0
      THEN [Note(s1, "getReviewers") EXCEPT
              !.local.prs = finalPrs, !.local.revIdx = 1,
              !.pc = "getReviewers"]
      ELSE pullReturn(s1, finalPrs)

\* a failed getBetweenDates kept inside the build, which returns null
getBetweenDatesReturnKeepsFailure(s, resp) ==
  IF resp.kind = "throw"
  THEN BuildReturn(Thrown(s, "getBetweenDates"), Null)
  ELSE
    LET o == Options(s)
        prCommits == filterCommits(s.local.commits,
                                   o.configuration.exclude_merge_branches)
        releaseCommitHashes == {prCommits[i].sha : i \in 1..Len(prCommits)}
        mergedPullRequests ==
          SelectSeq(resp.prs,
                    LAMBDA pr : pr.mergeCommitSha \in releaseCommitHashes)
        s1 == [s EXCEPT !.builds[Len(s.builds)].merged = Some(resp.prs),
                        !.builds[Len(s.builds)].correlated =
                           Some(mergedPullRequests)]
    IN  IF o.includeOpen
        THEN [Note(s1, "getOpen") EXCEPT
                !.local.prs = mergedPullRequests, !.pc = "getOpen"]
        ELSE afterOpen(s1, mergedPullRequests)

\* the correlation made against every commit of the range, the merges from
\* excluded branches included
getBetweenDatesReturnUnfiltered(s, resp) ==
  IF resp.kind = "throw"
  THEN Catch(Thrown(s, "getBetweenDates"), Message("request failed", ""))
  ELSE
    LET o == Options(s)
        prCommits == s.local.commits
        releaseCommitHashes == {prCommits[i].sha : i \in 1..Len(prCommits)}
        mergedPullRequests ==
          SelectSeq(resp.prs,
                    LAMBDA pr : pr.mergeCommitSha \in releaseCommitHashes)
        s1 == [s EXCEPT !.builds[Len(s.builds)].merged = Some(resp.prs),
                        !.builds[Len(s.builds)].correlated =
                           Some(mergedPullRequests)]
    IN  IF o.includeOpen
        THEN [Note(s1, "getOpen") EXCEPT
                !.local.prs = mergedPullRequests, !.pc = "getOpen"]
        ELSE afterOpen(s1, mergedPullRequests)

\* part_004:112-165 : the answer of getBetweenDates
getBetweenDatesReturn(s, resp) ==
  IF resp.kind = "throw"
  THEN Catch(Thrown(s, "getBetweenDates"), Message("request failed", ""))
  ELSE
    LET o == Options(s)
        prCommits == filterCommits(s.local.commits,
                                   o.configuration.exclude_merge_branches)
        releaseCommitHashes == {prCommits[i].sha : i \in 1..Len(prCommits)}
        mergedPullRequests ==
          SelectSeq(resp.prs,
                    LAMBDA pr : pr.mergeCommitSha \in releaseCommitHashes)
        s1 == [s EXCEPT !.builds[Len(s.builds)].merged = Some(resp.prs),
                        !.builds[Len(s.builds)].correlated =
                           Some(mergedPullRequests)]
    IN  IF o.includeOpen
        THEN [Note(s1, "getOpen") EXCEPT
                !.local.prs = mergedPullRequests, !.pc = "getOpen"]
        ELSE afterOpen(s1, mergedPullRequests)

\* the open pull requests put to the test of the merged ones before they
\* are appended
getOpenReturnCorrelated(s, resp) ==
  IF resp.kind = "throw"
  THEN Catch(Thrown(s, "getOpen"), Message("request failed", ""))
  ELSE afterOpen([s EXCEPT !.builds[Len(s.builds)].open = Some(resp.prs)],
                 s.local.prs \o
                 SelectSeq(resp.prs, LAMBDA pr :
                   \E i \in 1..Len(s.local.commits) :
                     s.local.commits[i].sha = pr.mergeCommitSha))

\* part_004:148-165 : the answer of getOpen
getOpenReturn(s, resp) ==
  IF resp.kind = "throw"
  THEN Catch(Thrown(s, "getOpen"), Message("request failed", ""))
  ELSE afterOpen([s EXCEPT !.builds[Len(s.builds)].open = Some(resp.prs)],
                 s.local.prs \o resp.prs)

\* getReviewers(owner, repo, pr) of pullRequests: the approving reviewers are
\* stored in the pull request; a failed request leaves the list empty
getReviewers(pr, resp) ==
  IF resp.kind = "throw" THEN pr
  ELSE [pr EXCEPT !.approvedReviewers = resp.reviewers]

\* the reviewer loop left at the first request that fails
getReviewersReturnStopsAtFailure(s, resp) ==
  LET i == s.local.revIdx
      s1 == [s EXCEPT !.local.prs[i] = getReviewers(@, resp),
                      !.local.revIdx = i + 1,
                      !.builds[Len(s.builds)].reviews = Append(@, resp)]
  IN  IF i + 1 > Len(s.local.prs) \/ resp.kind = "throw"
      THEN pullReturn(s1, s1.local.prs)
      ELSE Note(s1, "getReviewers")

\* part_004:187-197 : one turn of the reviewer loop
getReviewersReturn(s, resp) ==
  LET i == s.local.revIdx
      s1 == [s EXCEPT !.local.prs[i] = getReviewers(@, resp),
                      !.local.revIdx = i + 1,
                      !.builds[Len(s.builds)].reviews = Append(@, resp)]
  IN  IF i + 1 > Len(s.local.prs)
      THEN pullReturn(s1, s1.local.prs)
      ELSE Note(s1, "getReviewers")

-----------------------------------------------------------------------------
(* Submodules.getSubmodules and the rest of run() *)

\* the data of a getContent response that describes a submodule pointer:
\* not an array, and with a defined submodule_git_url
IsSubmodule(ref) == ref.kind = "submodule"

\* submodules.ts:34-35 and main.ts:75-77 : the head of the loop over the
\* paths; after the last path getSubmodules returns and main goes on
nextPath(s) ==
  IF s.pathIdx > Len(s.paths)
  THEN [s EXCEPT !.configuration.submodule_paths = <<>>,
                 !.appendix = <<>>,
                 !.subIdx = 1,
                 !.pc = "nested"]
  ELSE [s EXCEPT !.lookups = Append(@, [path |-> s.paths[s.pathIdx],
                                        ref |-> s.inputs.toTag,
                                        at |-> "toTag",
                                        threw |-> FALSE]),
                 !.pc = "fetchHead"]

\* main.ts:67-74 and submodules.ts:31-34 : getSubmodules is called
getSubmodulesStart(s) ==
  nextPath([s EXCEPT !.paths = s.configuration.submodule_paths,
                     !.modsInfo = <<>>,
                     !.pathIdx = 1])

\* a lookup that fails is noted as such
Answered(s, resp) ==
  [s EXCEPT !.lookups[Len(s.lookups)].threw = (resp.kind = "throw")]

\* submodules.ts:35-38 : the answer of the lookup at toTag
fetchHeadReturn(s, resp) ==
  IF resp.kind = "throw"
  THEN Catch(Answered(s, resp), Message("Not Found", s.paths[s.pathIdx]))
  ELSE [Answered(s, resp) EXCEPT
                 !.headRef = resp,
                 !.lookups = Append(@, [path |-> s.paths[s.pathIdx],
                                        ref |-> s.inputs.fromTag,
                                        at |-> "fromTag",
                                        threw |-> FALSE]),
                 !.pc = "fetchBase"]

\* submodules.ts:45-79 : the two pointers of a path are examined
examine(s, path, base, head) ==
  LET next == [s EXCEPT !.pathIdx = @ + 1] IN
  IF IsSubmodule(base) /\ IsSubmodule(head)
  THEN LET repoInfo == getRepoInfo(head.submodule_git_url) IN
       IF repoInfo.kind = "throw" THEN Catch(s, Message("TypeError", ""))
       ELSE IF repoInfo.kind = "info"
       THEN nextPath([next EXCEPT !.modsInfo =
              Append(@, [path |-> path, baseRef |-> base.sha,
                         headRef |-> head.sha, owner |-> repoInfo.owner,
                         repo |-> repoInfo.repo])])
       ELSE FailOrError(s, Message("not a valid GitHub repository", path),
                        s.inputs.failOnError, nextPath(next))
  ELSE FailOrError(s, Message("Missing or couldn't resolve submodule path", path),
                   s.inputs.failOnError, nextPath(next))

\* a failed lookup at fromTag reported like a path that did not resolve
fetchBaseReturnReportsFailure(s, resp) ==
  LET path == s.paths[s.pathIdx] IN
  IF resp.kind = "throw"
  THEN FailOrError(Answered(s, resp),
                   Message("Missing or couldn't resolve submodule path", path),
                   s.inputs.failOnError,
                   nextPath([Answered(s, resp) EXCEPT !.pathIdx = @ + 1]))
  ELSE examine([Answered(s, resp) EXCEPT !.baseRef = resp],
               path, resp, s.headRef)

\* submodules.ts:36-44 : the answer of the lookup at fromTag
fetchBaseReturn(s, resp) ==
  LET path == s.paths[s.pathIdx] IN
  IF resp.kind = "throw"
  THEN examine(Warn([Answered(s, resp) EXCEPT !.baseRef = s.headRef],
                    Message("Unable to find base ref", path)),
               path, s.headRef, s.headRef)
  ELSE examine([Answered(s, resp) EXCEPT !.baseRef = resp],
               path, resp, s.headRef)

\* the loop over the submodules, building each with the tags of the
\* top-level run instead of the pinned shas
nestedStartWithRunTags(s) ==
  IF s.subIdx > Len(s.modsInfo)
  THEN [s EXCEPT !.headRef = NoRef, !.baseRef = NoRef, !.pc = "setOutput"]
  ELSE
    LET submodule == s.modsInfo[s.subIdx]
        b == ReleaseNotesBuilder("nested", submodule.path, submodule.owner,
                                 submodule.repo, s.inputs.fromTag,
                                 s.inputs.toTag, s.inputs)
    IN  [s EXCEPT !.configuration.template =
                     s.configuration.submodule_template,
                  !.headRef = NoRef,
                  !.baseRef = NoRef,
                  !.builder = b,
                  !.builds = Append(@, BuildRecord(b)),
                  !.pc = "build"]

\* the loop over the submodules setting the changelog output as it starts
\* the build of the last submodule
nestedStartPublishesEarly(s) ==
  IF s.subIdx > Len(s.modsInfo)
  THEN [s EXCEPT !.headRef = NoRef, !.baseRef = NoRef, !.pc = "setOutput"]
  ELSE
    LET submodule == s.modsInfo[s.subIdx]
        b == ReleaseNotesBuilder("nested", submodule.path, submodule.owner,
                                 submodule.repo, submodule.baseRef,
                                 submodule.headRef, s.inputs)
        s1 == IF s.subIdx = Len(s.modsInfo)
              THEN SetOut(s, "changelog",
                          <<Str(s.result[1]), Newline>> \o s.appendix)
              ELSE s
    IN  [s1 EXCEPT !.configuration.template =
                      s.configuration.submodule_template,
                   !.headRef = NoRef,
                   !.baseRef = NoRef,
                   !.builder = b,
                   !.builds = Append(@, BuildRecord(b)),
                   !.pc = "build"]

\* main.ts:79-95 : the head of the loop over the submodules (headRef and
\* baseRef, locals of getSubmodules, no longer exist)
nestedStart(s) ==
  IF s.subIdx > Len(s.modsInfo)
  THEN [s EXCEPT !.headRef = NoRef, !.baseRef = NoRef, !.pc = "setOutput"]
  ELSE
    LET submodule == s.modsInfo[s.subIdx]
        b == ReleaseNotesBuilder("nested", submodule.path, submodule.owner,
                                 submodule.repo, submodule.baseRef,
                                 submodule.headRef, s.inputs)
    IN  [s EXCEPT !.configuration.template =
                     s.configuration.submodule_template,
                  !.headRef = NoRef,
                  !.baseRef = NoRef,
                  !.builder = b,
                  !.builds = Append(@, BuildRecord(b)),
                  !.pc = "build"]

\* writeOutput(repositoryPath, outputFile, changelog) of utils
writeOutput(s, changelog) == [s EXCEPT !.outFile = Some(changelog)]

\* the changelog output with the appendix, the output file without it
setOutputWritesTopLevelOnly(s, outputFile) ==
  LET text == IF Len(s.modsInfo) > 0
              THEN <<Str(s.result[1]), Newline>> \o s.appendix
              ELSE s.result
      s1 == SetOut([s EXCEPT !.result = text], "changelog", text)
  IN  [(IF outputFile # "" THEN writeOutput(s1, s.result) ELSE s1)
         EXCEPT !.pc = "end"]

\* the outputs with the appendix put in front of the top-level result
setOutputAppendixFirst(s, outputFile) ==
  LET text == IF Len(s.modsInfo) > 0
              THEN s.appendix \o <<Str(s.result[1]), Newline>>
              ELSE s.result
      s1 == SetOut([s EXCEPT !.result = text], "changelog", text)
  IN  [(IF outputFile # "" THEN writeOutput(s1, s1.result) ELSE s1)
         EXCEPT !.pc = "end"]

\* main.ts:100-114 : the changelog output and the output file
setOutput(s, outputFile) ==
  LET text == IF Len(s.modsInfo) > 0
              THEN <<Str(s.result[1]), Newline>> \o s.appendix
              ELSE s.result
      s1 == SetOut([s EXCEPT !.result = text], "changelog", text)
  IN  [(IF outputFile # "" THEN writeOutput(s1, s1.result) ELSE s1)
         EXCEPT !.pc = "end"]

-----------------------------------------------------------------------------
(* The answers of the hosting service *)

Throw == [kind |-> "throw"]

\* Tags.retrieveRange
TagResults ==
  {Throw,
   [kind |-> "ok", range |-> [from |-> NoTag, to |-> NoTag]],
   [kind |-> "ok", range |-> [from |-> NoTag, to |-> TagInfo(TagV2, ShaB)]],
   [kind |-> "ok", range |-> [from |-> TagInfo(TagV1, ShaA),
                              to |-> TagInfo(TagV2, ShaB)]]}

\* Commits.getDiff
DiffResults ==
  {Throw,
   [kind |-> "ok", commits |-> <<>>],
   [kind |-> "ok", commits |-> <<Commit("c1", 100, ""),
                                 Commit("c2", 500, "release")>>]}

\* PullRequests.getBetweenDates
MergedResults ==
  {Throw,
   [kind |-> "ok", prs |-> <<>>],
   [kind |-> "ok", prs |-> <<PullRequest(1, "c1", BranchMain, "merged"),
                             PullRequest(2, "c2", BranchMain, "merged")>>]}

\* PullRequests.getOpen
OpenResults ==
  {Throw,
   [kind |-> "ok", prs |-> <<PullRequest(3, "", BranchDev, "open")>>]}

\* the reviews request of PullRequests.getReviewers
ReviewerResults ==
  {Throw, [kind |-> "ok", reviewers |-> <<"alice">>]}

\* further answers, given to the top-level build of a run without submodule
\* paths: a range where only `from` resolved; a short range without merges
\* from excluded branches; pull requests merged outside the range, into
\* other base branches and in another order than the commits; open pull
\* requests on several base branches
TagDetails ==
  {[kind |-> "ok", range |-> [from |-> TagInfo(TagV1, ShaA), to |-> NoTag]]}
DiffDetails ==
  {[kind |-> "ok", commits |-> <<Commit("c3", 450, ""),
                                 Commit("c4", 500, "")>>]}
MergedDetails ==
  {[kind |-> "ok", prs |-> <<PullRequest(4, "zz", BranchMain, "merged"),
                             PullRequest(5, "c4", BranchDev, "merged"),
                             PullRequest(6, "c3", BranchFix, "merged"),
                             PullRequest(2, "c2", BranchFix, "merged"),
                             PullRequest(1, "c1", BranchMain, "merged")>>]}
OpenDetails ==
  {[kind |-> "ok", prs |-> <<>>],
   [kind |-> "ok", prs |-> <<PullRequest(7, "", BranchFix, "open"),
                             PullRequest(8, "c3", BranchMain, "open")>>]}

\* the answers explored for a request of the state s: the further ones for
\* the top-level build of a run without submodule paths and for the lookups
\* of a run with one path
Detailed(s) ==
  /\ s.builder.kind = "top"
  /\ IF s.pc \in {"fetchHead", "fetchBase"}
     THEN Len(s.loaded.submodule_paths) = 1
     ELSE s.loaded.submodule_paths = <<>>
Answers(s, results, details) ==
  IF Detailed(s) THEN results \cup details ELSE results

Submodule(url, sha) ==
  [kind |-> "submodule", submodule_git_url |-> url, sha |-> sha]

\* repos.getContent at toTag and at fromTag
HeadResults ==
  {Throw, [kind |-> "file"], Submodule(UrlLib, ShaB),
   Submodule(UrlForeign, ShaB)}
BaseResults ==
  {Throw, [kind |-> "dir"], Submodule(UrlLib, ShaA), Submodule(UrlKit, ShaA)}

\* further answers of the lookup at toTag
HeadDetails ==
  {Submodule(UrlDigit, ShaB), Submodule(UrlNoRepo, ShaB)}

-----------------------------------------------------------------------------
(* The specification *)

Inputs ==
  [owner : {<<>>, OwnerO}, repo : {<<>>, RepoR},
   fromTag : {<<>>, ShaA, Bad40}, toTag : {<<>>, ShaB, Short7},
   includeOpen : BOOLEAN, failOnError : BOOLEAN,
   fetchReviewers : BOOLEAN, commitMode : BOOLEAN]

Configurations ==
  {[DefaultConfiguration EXCEPT
      !.template = "# Changes ${{CHANGELOG}}",
      !.empty_template = e,
      !.submodule_paths = SubSeq(PathSeq, 1, n),
      !.exclude_merge_branches = <<"release">>,
      !.base_branches = b,
      !.max_back_track_time_days = d] :
    e \in {"", "Nothing changed"}, n \in 0..MaxPaths,
    b \in {<<>>, <<BranchMain>>, <<BranchDev, BranchMain>>},
    d \in {None, Some(0), Some(20), Some(200)}}

\* The combinations of inputs that are explored: every combination of the
\* inputs for a run without submodule paths; with submodule paths, the runs
\* that list merged pull requests only, with a repo, and with the two tags
\* either both given as commit identifiers or both absent; base_branches
\* and max_back_track_time_days are varied in the runs without submodule
\* paths whose owner, repo and two commit identifiers are given
Explored(in, c) ==
  /\ Len(c.submodule_paths) > 0 =>
       /\ ~in.includeOpen
       /\ ~in.fetchReviewers
       /\ in.repo # <<>>
       /\ <<in.fromTag, in.toTag>> \in {<<ShaA, ShaB>>, <<None, None>>}
  /\ (c.base_branches # <<>> \/ c.max_back_track_time_days # None) =>
       /\ Len(c.submodule_paths) = 0
       /\ c.empty_template = ""
       /\ in.owner # <<>> /\ in.repo # <<>>
       /\ <<in.fromTag, in.toTag>> = <<ShaA, ShaB>>

Init ==
  /\ inputs \in Inputs
  /\ configuration \in Configurations
  /\ Explored(inputs, configuration)
  /\ loaded = configuration
  /\ builder = ReleaseNotesBuilder("top", ".", inputs.owner, inputs.repo,
                                   inputs.fromTag, inputs.toTag, inputs)
  /\ builds = <<BuildRecord(builder)>>
  /\ pc = "build"
  /\ local = NoLocal
  /\ result = <<Null>>
  /\ paths = <<>>
  /\ pathIdx = 0
  /\ headRef = NoRef
  /\ baseRef = NoRef
  /\ modsInfo = <<>>
  /\ subIdx = 0
  /\ appendix = <<>>
  /\ outputs = [failed |-> Some(FALSE), owner |-> None, repo |-> None,
                toTag |-> None, fromTag |-> None, pull_requests |-> None,
                changelog |-> None]
  /\ outFile = None
  /\ failed = None
  /\ errors = {}
  /\ warnings = {}
  /\ lookups = <<>>

BuildStart ==
  /\ pc = "build"
  /\ Assign(buildStart(S))

RetrieveRangeReturn ==
  /\ pc = "retrieveRange"
  /\ \E resp \in Answers(S, TagResults, TagDetails) :
       Assign(retrieveRangeReturn(S, resp))

BuildCheckTags ==
  /\ pc = "checkTags"
  /\ Assign(buildCheckTags(S))

GetDiffReturn ==
  /\ pc = "getDiff"
  /\ \E resp \in Answers(S, DiffResults, DiffDetails) :
       Assign(getDiffReturn(S, resp))

GetBetweenDatesReturn ==
  /\ pc = "getBetweenDates"
  /\ \E resp \in Answers(S, MergedResults, MergedDetails) :
       Assign(getBetweenDatesReturn(S, resp))

GetOpenReturn ==
  /\ pc = "getOpen"
  /\ \E resp \in Answers(S, OpenResults, OpenDetails) :
       Assign(getOpenReturn(S, resp))

GetReviewersReturn ==
  /\ pc = "getReviewers"
  /\ \E resp \in ReviewerResults : Assign(getReviewersReturn(S, resp))

GetSubmodulesStart ==
  /\ pc = "getSubmodules"
  /\ Assign(getSubmodulesStart(S))

FetchHeadReturn ==
  /\ pc = "fetchHead"
  /\ \E resp \in Answers(S, HeadResults, HeadDetails) :
       Assign(fetchHeadReturn(S, resp))

FetchBaseReturn ==
  /\ pc = "fetchBase"
  /\ \E resp \in BaseResults : Assign(fetchBaseReturn(S, resp))

NestedStart ==
  /\ pc = "nested"
  /\ Assign(nestedStart(S))

SetOutput ==
  /\ pc = "setOutput"
  /\ \E outputFile \in {"", "CHANGELOG.md"} : Assign(setOutput(S, outputFile))

Next ==
  \/ BuildStart
  \/ RetrieveRangeReturn
  \/ BuildCheckTags
  \/ GetDiffReturn
  \/ GetBetweenDatesReturn
  \/ GetOpenReturn
  \/ GetReviewersReturn
  \/ GetSubmodulesStart
  \/ FetchHeadReturn
  \/ FetchBaseReturn
  \/ NestedStart
  \/ SetOutput

Spec == Init /\ [][Next]_vars

-----------------------------------------------------------------------------
(* Properties *)

\* what the claims call a full-length hexadecimal commit identifier
IsCommitId(ref) == ref \in {ShaA, ShaB, ShaC}

BuildIds == 1..Len(builds)

\* C1: in a build whose fromTag and toTag are both 40-character hexadecimal
\* commit identifiers the tag range is made of the two inputs, each as name
\* and as commit, and Tags.retrieveRange is never called; in a build that
\* reaches its tag checks with any other pair of inputs, retrieveRange was
\* called
C1_ShaInputsBypassResolution ==
  \A k \in BuildIds :
    LET b == builds[k] IN
    IF IsCommitId(b.fromTag) /\ IsCommitId(b.toTag)
    THEN /\ "retrieveRange" \notin b.calls
         /\ b.tagRange # None =>
              b.tagRange[1] = [from |-> [name |-> b.fromTag, commit |-> b.fromTag],
                               to |-> [name |-> b.toTag, commit |-> b.toTag]]
    ELSE b.tagRange # None => "retrieveRange" \in b.calls

\* C1 witness: the top-level build was given two commit identifiers and has
\* gone past its tag checks
C1_Witness ==
  /\ IsCommitId(builds[1].fromTag) /\ IsCommitId(builds[1].toTag)
  /\ builds[1].tagRange # None
  /\ builds[1].ret # None

\* the path whose two pointers headRef and baseRef are, once it has been
\* examined and before the next answer overwrites them
Examined ==
  IF pc \in {"fetchHead", "nested"} /\ pathIdx >= 2 /\ baseRef # NoRef
  THEN Some(paths[pathIdx - 1])
  ELSE None

EntriesOf(path) == {k \in 1..Len(modsInfo) : modsInfo[k].path = path}

\* the lookup at fromTag of this path threw
BaseLookupFailed(path) == Message("Unable to find base ref", path) \in warnings

Reported(path) ==
  \/ Message("Missing or couldn't resolve submodule path", path) \in errors
  \/ Message("not a valid GitHub repository", path) \in errors

\* C2: a path gets an entry only if both lookups succeeded and report the
\* same URL; with the same URL and different shas it gets exactly one entry,
\* with baseRef the sha at fromTag and headRef the sha at toTag; two
\* different URLs give no entry and are reported
C2_EntryOnlyForSameUrl ==
  Examined # None =>
    LET path == Examined[1]
        both == /\ ~BaseLookupFailed(path)
                /\ IsSubmodule(baseRef) /\ IsSubmodule(headRef)
    IN  /\ EntriesOf(path) # {} =>
             both /\ baseRef.submodule_git_url = headRef.submodule_git_url
        /\ ( /\ both
             /\ baseRef.submodule_git_url = headRef.submodule_git_url
             /\ baseRef.sha # headRef.sha )
           => /\ Cardinality(EntriesOf(path)) = 1
              /\ \A k \in EntriesOf(path) :
                   /\ modsInfo[k].baseRef = baseRef.sha
                   /\ modsInfo[k].headRef = headRef.sha
        /\ (both /\ baseRef.submodule_git_url # headRef.submodule_git_url)
           => EntriesOf(path) = {} /\ Reported(path)

\* C3: with failOnError unset a path that is missing at a tag never fails
\* the run, and once getSubmodules has returned every configured path has
\* been looked up
C3_UnresolvedPathOnlySkipped ==
  ~inputs.failOnError =>
    /\ \A i \in 1..Len(paths) : failed # Some(Message("Not Found", paths[i]))
    /\ pc \in {"nested", "setOutput"} =>
         \A i \in 1..Len(paths) :
           \E j \in 1..Len(lookups) : lookups[j].path = paths[i]

\* a recoverable condition has been reported while failOnError is set
StrictReport == inputs.failOnError /\ errors # {}

\* C4: with failOnError set, once a recoverable condition has been reported
\* the run is over and marked failed, no changelog output is set and no file
\* is written, and from then on no lookup is issued and no build is started
C4_StrictAbortsRun ==
  /\ [](StrictReport =>
          /\ pc = "end"
          /\ failed # None
          /\ outputs.changelog = None
          /\ outFile = None)
  /\ [][StrictReport =>
          /\ lookups' = lookups
          /\ builds' = builds
          /\ outputs' = outputs
          /\ outFile' = outFile]_vars

\* C4 witness: a strict run stopped by a submodule path that did not resolve,
\* with a path still to look up
C4_Witness ==
  /\ StrictReport
  /\ \E i \in 1..Len(paths) : Reported(paths[i]) /\ i < Len(paths)

\* C5: the k-th nested build is the one of the k-th SubmoduleInfo: scoped to
\* its owner and repo, from its baseRef to its headRef; it never calls
\* retrieveRange and publishes the two pinned shas as fromTag and toTag; a run
\* that sets its changelog has made one nested build per SubmoduleInfo
C5_NestedBuildPerSubmodule ==
  /\ Len(builds) <= 1 + Len(modsInfo)
  /\ outputs.changelog # None => Len(builds) = 1 + Len(modsInfo)
  /\ \A k \in 2..Len(builds) :
       LET b == builds[k]
           m == modsInfo[k - 1]
       IN  /\ b.kind = "nested"
           /\ b.repositoryPath = m.path
           /\ b.owner = m.owner /\ b.repo = m.repo
           /\ b.fromTag = m.baseRef /\ b.toTag = m.headRef
           /\ "retrieveRange" \notin b.calls
           /\ (k = Len(builds) /\ b.tagRange # None) =>
                /\ outputs.fromTag = Some(m.baseRef)
                /\ outputs.toTag = Some(m.headRef)

\* C5 witness: a run with two submodules has finished both nested builds
C5_Witness ==
  /\ Len(modsInfo) = 2
  /\ Len(builds) = 3
  /\ builds[3].ret # None
  /\ modsInfo[1].baseRef # modsInfo[1].headRef

\* C6: a nested build renders with the submodule pair: a rendered changelog
\* uses submodule_template, an empty pull-request list gives
\* submodule_empty_template
C6_SubmoduleTemplatePair ==
  \A k \in 2..Len(builds) :
    builds[k].ret # None =>
      LET v == builds[k].ret[1] IN
      /\ v.kind = "changelog" => v.template = loaded.submodule_template
      /\ v.kind = "filled" => v.template = loaded.submodule_empty_template

\* the results of the nested builds, each followed by a line break
RECURSIVE NestedTexts(_)
NestedTexts(k) ==
  IF k > Len(builds) THEN <<>>
  ELSE <<Str(builds[k].ret[1]), Newline>> \o NestedTexts(k + 1)

\* position of a path in the configured list
PathPos(path) == CHOOSE i \in 1..Len(loaded.submodule_paths) :
                   loaded.submodule_paths[i] = path

\* C7: the changelog is the top-level result, then the results of the nested
\* builds, one per resolved submodule, in the order of the configured paths;
\* without a resolved submodule it is the top-level result alone
C7_TopLevelThenSubmodulesInOrder ==
  outputs.changelog # None =>
    LET text == outputs.changelog[1] IN
    /\ Len(builds) = 1 + Len(modsInfo)
    /\ \A k \in 2..Len(builds) : builds[k].repositoryPath = modsInfo[k - 1].path
    /\ \A i, j \in 1..Len(modsInfo) :
         i < j => PathPos(modsInfo[i].path) < PathPos(modsInfo[j].path)
    /\ IF Len(modsInfo) = 0
       THEN text = <<builds[1].ret[1]>>
       ELSE text = <<Str(builds[1].ret[1]), Newline>> \o NestedTexts(2)

\* C7 witness: a changelog with two submodule results that differ
C7_Witness ==
  /\ outputs.changelog # None
  /\ Len(modsInfo) = 2
  /\ builds[2].ret[1].kind # builds[3].ret[1].kind

\* C8: across the whole run the configuration object keeps the values it was
\* loaded with
C8_ConfigurationUnchanged == configuration = loaded

\* the empty-template output of a build: the configured empty_template, the
\* default one when none is configured, filled for the build's repository
\* and its resolved tags
EmptyOutput(b) ==
  [kind |-> "filled",
   template |-> IF loaded.empty_template # "" THEN loaded.empty_template
                ELSE "- no changes",
   owner |-> b.owner, repo |-> b.repo,
   fromTag |-> b.tagRange[1].from.name, toTag |-> b.tagRange[1].to.name]

\* C9: a build whose pull-request list is empty, in either mode, renders
\* nothing and returns the empty-template output
C9_EmptyListGivesEmptyTemplate ==
  \A k \in BuildIds :
    LET b == builds[k] IN
    b.prs = Some(<<>>) =>
      /\ "buildChangelog" \notin b.calls
      /\ b.ret = Some(EmptyOutput(b))

\* C9 witness: commits were found but no pull request was retained, the
\* configuration names no empty_template, and the build has returned
C9_Witness ==
  \E k \in BuildIds :
    /\ builds[k].prs = Some(<<>>)
    /\ builds[k].diff # None /\ builds[k].diff # Some(0)
    /\ loaded.empty_template = ""
    /\ builds[k].ret # None

\* the build that is executing
Current == builds[Len(builds)]

\* C10: the step in which getDiff answers with zero commits does not fail the
\* run and reports no error, whatever failOnError is: it logs the warning,
\* the build has issued no pull-request, open-pull-request or reviewer
\* request, and it returns the empty-template output
C10_EmptyRangeIsNotFatal ==
  [][(pc = "getDiff" /\ Current'.diff = Some(0)) =>
       /\ failed' = None
       /\ errors' = errors
       /\ Message("No commits found", "") \in warnings'
       /\ Current'.calls \cap {"getBetweenDates", "getOpen", "getReviewers"} = {}
       /\ "buildChangelog" \notin Current'.calls
       /\ Current'.ret = Some(EmptyOutput(Current'))]_vars

\* C10 witness: a strict run received an empty commit range
C10_Witness ==
  /\ inputs.failOnError
  /\ \E k \in BuildIds : builds[k].diff = Some(0) /\ builds[k].ret # None

-----------------------------------------------------------------------------
(* Tag resolution, pull-request correlation, outputs, submodule lookups *)

\* the requests and renderings a build makes after its tag checks
AfterTagChecks ==
  {"getDiff", "getBetweenDates", "getOpen", "getReviewers", "buildChangelog"}

\* the tag checks of build k were made on a range without `to`, without `from`
NoTo(k) == builds[k].tagRange # None /\ builds[k].tagRange[1].to = NoTag
NoFrom(k) == builds[k].tagRange # None /\ builds[k].tagRange[1].from = NoTag

\* C11: a build whose resolved range lacks `to` or `from` has reported it to
\* failOrError, has asked for no comparison and no pull requests and has
\* rendered nothing; if it returned, it returned null, and it returned unless
\* failOnError ended the run; the step that finds `to` missing sets no
\* output, the step that finds `from` missing does not set fromTag
C11_UnresolvedTagsReported ==
  /\ [](\A k \in BuildIds :
          (NoTo(k) \/ NoFrom(k)) =>
            /\ IF NoTo(k)
               THEN Message("Missing or couldn't resolve 'toTag'", "") \in errors
               ELSE Message("Unable to retrieve previous tag", "") \in errors
            /\ builds[k].calls \cap AfterTagChecks = {}
            /\ IF builds[k].failOnError
               THEN builds[k].ret = None /\ failed # None /\ pc = "end"
               ELSE builds[k].ret = Some(Null))
  /\ [][(pc = "checkTags" /\ local.tagRange.to = NoTag) =>
          outputs' = outputs]_vars
  /\ [][(pc = "checkTags" /\ local.tagRange.from = NoTag) =>
          outputs'.fromTag = outputs.fromTag]_vars

\* C11 witness: a lenient top-level build resolved `to` but no `from`: it
\* published toTag only and returned null
C11_Witness ==
  /\ NoFrom(1) /\ ~NoTo(1)
  /\ builds[1].ret = Some(Null)
  /\ outputs.toTag = Some(TagV2)
  /\ outputs.fromTag = None

\* the elements of a sequence
Elems(seq) == {seq[i] : i \in 1..Len(seq)}

\* the numbers of the pull requests of a list, in its order
Numbers(prs) == [i \in 1..Len(prs) |-> prs[i].number]

\* a commit that is no merge from a branch named in exclude_merge_branches
Survives(commit) == commit.mergeOf \notin Elems(loaded.exclude_merge_branches)

\* the builds in standard mode that received the merged pull requests
Correlating == {k \in BuildIds : builds[k].merged # None}

\* C12: of the merged pull requests listed for the window, exactly those are
\* kept by correlation whose mergeCommitSha is the sha of a commit of the
\* range that survives the exclude_merge_branches filter; no other merged
\* pull request is in the list the build ends with
C12_RetainedIffMergeCommitSurvives ==
  \A k \in Correlating :
    LET b == builds[k]
        InRelease(pr) == \E c \in Elems(b.commits[1]) :
                            Survives(c) /\ c.sha = pr.mergeCommitSha
    IN  /\ \A pr \in Elems(b.merged[1]) :
             pr \in Elems(b.correlated[1]) <=> InRelease(pr)
        /\ Elems(b.correlated[1]) \subseteq Elems(b.merged[1])
        /\ b.prs # None =>
             \A pr \in Elems(b.prs[1]) :
               pr.status = "merged" =>
                 /\ pr.number \in Elems(Numbers(b.correlated[1]))
                 /\ InRelease(pr)

\* C12 witness: the listing held a pull request merged by a commit of the
\* range, one merged by an excluded merge commit and one merged outside the
\* range, and the build has finished
C12_Witness ==
  \E k \in Correlating :
    LET b == builds[k]
        shas == {c.sha : c \in Elems(b.commits[1])}
    IN  /\ b.prs # None /\ b.prs[1] # <<>>
        /\ \E pr \in Elems(b.merged[1]) : pr \in Elems(b.correlated[1])
        /\ \E pr \in Elems(b.merged[1]) :
             pr.mergeCommitSha \in shas /\ pr \notin Elems(b.correlated[1])
        /\ \E pr \in Elems(b.merged[1]) : pr.mergeCommitSha \notin shas

\* the builds in standard mode that came to the base-branch filter
Listing == {k \in BuildIds : builds[k].all # None}

\* C13: with includeOpen the candidates are the pull requests kept by
\* correlation followed by every pull request the open listing answered;
\* without it no open listing is requested, the candidates are the pull
\* requests kept by correlation, and so is every pull request of the result
C13_OpenAppendedUnfiltered ==
  /\ \A k \in BuildIds :
       ("getOpen" \in builds[k].calls \/ builds[k].open # None) =>
         inputs.includeOpen /\ k \in Correlating
  /\ \A k \in Listing :
       LET b == builds[k] IN
       IF inputs.includeOpen
       THEN /\ b.open # None
            /\ b.all[1] = b.correlated[1] \o b.open[1]
       ELSE /\ b.all[1] = b.correlated[1]
            /\ b.prs # None =>
                 Elems(Numbers(b.prs[1])) \subseteq Elems(Numbers(b.correlated[1]))

\* C13 witness: open pull requests, one of them with a merge commit sha of
\* the range and one without, were appended to a retained merged one
C13_Witness ==
  \E k \in Listing :
    LET b == builds[k] IN
    /\ inputs.includeOpen
    /\ b.correlated[1] # <<>>
    /\ Len(b.open[1]) = 2
    /\ b.prs # None

\* the candidates whose baseBranch matches one of the patterns, in order
OnBaseBranches(prs, patterns) ==
  SelectSeq(prs, LAMBDA pr :
    \E p \in Elems(patterns) : RegExpMatches(pr.baseBranch, p))

\* C14: with base_branches configured the result is made of the candidates,
\* merged and open, whose baseBranch matches one of the patterns, in the
\* order of the candidates; without base_branches it is all the candidates
C14_BaseBranchFilter ==
  \A k \in Listing :
    LET b == builds[k] IN
    b.prs # None =>
      Numbers(b.prs[1]) =
        IF loaded.base_branches # <<>>
        THEN Numbers(OnBaseBranches(b.all[1], loaded.base_branches))
        ELSE Numbers(b.all[1])

\* C14 witness: with two patterns configured, a merged and an open candidate
\* were removed and a merged and an open one were kept
C14_Witness ==
  \E k \in Listing :
    LET b == builds[k] IN
    /\ Len(loaded.base_branches) = 2
    /\ b.prs # None
    /\ \E i, j \in 1..Len(b.prs[1]) :
         b.prs[1][i].status = "merged" /\ b.prs[1][j].status = "open"
    /\ \E pr \in Elems(b.correlated[1]) :
         pr.number \notin Elems(Numbers(b.prs[1]))
    /\ \E pr \in Elems(b.open[1]) :
         pr.number \notin Elems(Numbers(b.prs[1]))

\* the pull request that stands for a commit in commit mode
Synthetic(commit) ==
  [number |-> 0, title |-> commit.summary, body |-> commit.message,
   author |-> commit.author, mergeCommitSha |-> commit.sha,
   status |-> "merged", labels |-> {}, assignees |-> <<>>,
   requestedReviewers |-> <<>>, approvedReviewers |-> <<>>]

\* the fields of a pull request that C15 names
Named(pr) ==
  [number |-> pr.number, title |-> pr.title, body |-> pr.body,
   author |-> pr.author, mergeCommitSha |-> pr.mergeCommitSha,
   status |-> pr.status, labels |-> pr.labels, assignees |-> pr.assignees,
   requestedReviewers |-> pr.requestedReviewers,
   approvedReviewers |-> pr.approvedReviewers]

\* the builds in commit mode that received an answer of getDiff
CommitModeBuilds ==
  {k \in BuildIds : inputs.commitMode /\ builds[k].commits # None}

\* C15: in commit mode the pull requests of a build are the synthetic pull
\* requests of the commits that survive the exclude_merge_branches filter,
\* one per commit and in the order of the commits; the build lists no pull
\* requests, merged or open, filters no base branch and fetches no reviewers
C15_CommitModeSynthesizes ==
  /\ inputs.commitMode =>
       \A k \in BuildIds :
         /\ builds[k].calls \cap {"getBetweenDates", "getOpen", "getReviewers"} = {}
         /\ builds[k].merged = None /\ builds[k].open = None
         /\ builds[k].all = None
  /\ \A k \in CommitModeBuilds :
       LET b == builds[k]
           kept == SelectSeq(b.commits[1], Survives)
       IN  /\ b.prs # None
           /\ Len(b.prs[1]) = Len(kept)
           /\ \A i \in 1..Len(kept) : Named(b.prs[1][i]) = Synthetic(kept[i])

\* C15 witness: a range of two commits, one of them a merge from an excluded
\* branch, gave one synthetic pull request
C15_Witness ==
  \E k \in CommitModeBuilds :
    /\ Len(builds[k].commits[1]) = 2
    /\ Len(builds[k].prs[1]) = 1
    /\ builds[k].ret # None

\* the number of days the configuration allows to go back: the configured
\* max_back_track_time_days, the documented default when none is configured
ConfiguredDays ==
  IF loaded.max_back_track_time_days = None
  THEN DefaultConfiguration.max_back_track_time_days
  ELSE loaded.max_back_track_time_days[1]

Later(a, b) == IF a > b THEN a ELSE b

\* C16: the window given to the pull-request listing ends at the date of the
\* last commit and starts at the later of the date of the first commit and
\* the end minus the configured number of days: never before the first
\* commit, never more than that number of days before the end
C16_WindowClampedForward ==
  \A k \in BuildIds :
    builds[k].window # None =>
      LET commits == builds[k].commits[1]
          first == commits[1].date
          last == commits[Len(commits)].date
          w == builds[k].window[1]
      IN  /\ w.toDate = last
          /\ w.fromDate = Later(first, last - ConfiguredDays)
          /\ w.fromDate >= first
          /\ w.fromDate >= w.toDate - ConfiguredDays

\* C17: without fetchReviewers no reviewer request is made; with it, a build
\* that ends with pull requests has made one request per pull request, a
\* pull request whose request failed is still in the result, with no
\* approving reviewers, the others have the reviewers that were answered,
\* and the step that receives a failed answer neither fails the run nor
\* reports an error
C17_ReviewerFailureIsNotFatal ==
  /\ [](\A k \in BuildIds :
          LET b == builds[k] IN
          /\ ~inputs.fetchReviewers =>
               "getReviewers" \notin b.calls /\ b.reviews = <<>>
          /\ (inputs.fetchReviewers /\ b.all # None /\ b.prs # None) =>
               /\ Len(b.reviews) = Len(b.prs[1])
               /\ \A i \in 1..Len(b.prs[1]) :
                    b.prs[1][i].approvedReviewers =
                      IF b.reviews[i].kind = "throw" THEN <<>>
                      ELSE b.reviews[i].reviewers)
  /\ [][pc = "getReviewers" =>
          /\ failed' = None
          /\ errors' = errors
          /\ pc' # "end"]_vars

\* C17 witness: the first of two reviewer requests failed, the second was
\* answered, and the build ended with both pull requests
C17_Witness ==
  \E k \in BuildIds :
    LET b == builds[k] IN
    /\ b.prs # None /\ Len(b.prs[1]) = 2
    /\ Len(b.reviews) = 2
    /\ b.reviews[1].kind = "throw"
    /\ b.reviews[2].kind = "ok"
    /\ b.prs[1][2].approvedReviewers # <<>>
    /\ inputs.failOnError

\* the number of days the code goes back: as configured, and the default
\* when the configured number is absent or 0
EffectiveDays ==
  IF loaded.max_back_track_time_days \in {None, Some(0)}
  THEN DefaultConfiguration.max_back_track_time_days
  ELSE loaded.max_back_track_time_days[1]

\* C16 (amended): the window ends at the date of the last commit and starts
\* at the later of the date of the first commit and the end minus the
\* effective number of days, which is the default when 0 is configured
C16_WindowClampedByEffectiveDays ==
  \A k \in BuildIds :
    builds[k].window # None =>
      LET commits == builds[k].commits[1]
          first == commits[1].date
          last == commits[Len(commits)].date
          w == builds[k].window[1]
      IN  /\ w.toDate = last
          /\ w.fromDate = Later(first, last - EffectiveDays)
          /\ w.fromDate >= first
          /\ w.fromDate >= w.toDate - EffectiveDays

\* C16 witness: with 0 days configured the start of the window was moved
\* forward from the first commit, to the default number of days before the
\* end
C16_Witness ==
  \E k \in BuildIds :
    /\ builds[k].window # None
    /\ loaded.max_back_track_time_days = Some(0)
    /\ builds[k].window[1].fromDate > builds[k].commits[1][1].date
    /\ builds[k].window[1].fromDate < builds[k].window[1].toDate
    /\ builds[k].merged # None

\* the last build has returned a text
ReturnedText == Current.ret # None /\ Current.ret[1] # Null

\* the outputs owner, repo, toTag and fromTag hold what the last build
\* resolved
ResolvedPublished ==
  /\ outputs.owner = Some(Current.owner)
  /\ outputs.repo = Some(Current.repo)
  /\ outputs.toTag = Some(Current.tagRange[1].to.name)
  /\ outputs.fromTag = Some(Current.tagRange[1].from.name)

\* C18: once a build has returned a text, in either mode, the outputs owner,
\* repo, toTag and fromTag hold its resolved values and the output
\* pull_requests holds the numbers of its pull requests
C18_OutputsPublishedInBothModes ==
  ReturnedText =>
    /\ ResolvedPublished
    /\ outputs.pull_requests = Some(Numbers(Current.prs[1]))

\* C18 (amended): once a build has returned a text the outputs owner, repo,
\* toTag and fromTag hold its resolved values; in standard mode the output
\* pull_requests holds the numbers of the pull requests it ended with, in
\* commit mode no build sets that output
C18_OutputsPublished ==
  /\ ReturnedText =>
       /\ ResolvedPublished
       /\ ~inputs.commitMode =>
            outputs.pull_requests = Some(Numbers(Current.prs[1]))
  /\ inputs.commitMode => outputs.pull_requests = None

\* C18 witness: a build in commit mode returned a rendered changelog
C18_Witness ==
  /\ inputs.commitMode
  /\ ReturnedText
  /\ Current.ret[1].kind = "changelog"
  /\ Current.prs[1] # <<>>

StartsWith(s, prefix) ==
  Len(s) >= Len(prefix) /\ SubSeq(s, 1, Len(prefix)) = prefix

\* what follows the host of a URL: after "https://host/" or "git@host:"
AfterHost(url) ==
  LET https == <<"h", "t", "t", "p", "s", ":", "/", "/">>
      ssh == <<"g", "i", "t", "@">>
      scheme == IF StartsWith(url, https) THEN https
                ELSE IF StartsWith(url, ssh) THEN ssh ELSE <<>>
      mark == IF scheme = https THEN "/" ELSE ":"
      r == SubSeq(url, Len(scheme) + 1, Len(url))
      ends == {k \in 2..Len(r) : r[k] = mark}
  IN  IF scheme = <<>> \/ ends = {} THEN None
      ELSE Some(SubSeq(r, (CHOOSE k \in ends : \A j \in ends : k <= j) + 1,
                       Len(r)))

\* owner and repo of a URL of the form https://host/owner/repo[.git] or
\* git@host:owner/repo[.git]; None for any other string
RepoOf(url) ==
  LET a == AfterHost(url) IN
  IF a = None THEN None
  ELSE
    LET p == a[1]
        slashes == {k \in 1..Len(p) : p[k] = "/"}
    IN  IF slashes = {} THEN None
        ELSE
          LET k == Max(slashes)
              name == SubSeq(p, k + 1, Len(p))
              repo == IF /\ Len(name) > 4
                         /\ SubSeq(name, Len(name) - 3, Len(name)) =
                              <<".", "g", "i", "t">>
                      THEN SubSeq(name, 1, Len(name) - 4)
                      ELSE name
          IN  IF k = 1 \/ name = <<>> THEN None
              ELSE Some([owner |-> SubSeq(p, 1, k - 1), repo |-> repo])

\* C19: getRepoInfo never throws; a path whose pointer URL has one of the
\* two forms gets an entry with the owner and the repo of the URL, the repo
\* without a trailing ".git" and otherwise unchanged; a path whose URL has
\* neither form gets no entry
C19_RepoInfoRecovered ==
  /\ failed # Some(Message("TypeError", ""))
  /\ (Examined # None /\ IsSubmodule(headRef) /\ IsSubmodule(baseRef)) =>
       LET path == Examined[1]
           info == RepoOf(headRef.submodule_git_url)
       IN  IF info = None THEN EntriesOf(path) = {}
           ELSE \E k \in EntriesOf(path) :
                  /\ modsInfo[k].owner = info[1].owner
                  /\ modsInfo[k].repo = info[1].repo

\* the top-level build resolved both tags
TopResolved ==
  /\ builds[1].tagRange # None
  /\ builds[1].tagRange[1].to # NoTag
  /\ builds[1].tagRange[1].from # NoTag

\* C20: when the top-level build resolved its tags, every lookup of
\* getSubmodules is made at the tag it resolved: the one at toTag at the
\* resolved `to`, the one at fromTag at the resolved `from`
C20_LookupsAtResolvedTags ==
  TopResolved =>
    \A j \in 1..Len(lookups) :
      lookups[j].ref = IF lookups[j].at = "toTag"
                       THEN builds[1].tagRange[1].to.name
                       ELSE builds[1].tagRange[1].from.name

-----------------------------------------------------------------------------
(* The course of a run *)

\* a path that getSubmodules is done with: it has its entry or was reported
Processed(path) == EntriesOf(path) # {} \/ Reported(path)

\* every build before the last one has returned
EarlierBuildsReturned == \A k \in 1..(Len(builds) - 1) : builds[k].ret # None

\* C21: a lookup is made only after the top-level build has returned and
\* after every path before its own is done with, and the lookups follow the
\* order of the paths; a nested build exists only when no lookup is
\* outstanding, every configured path is done with and every earlier build
\* has returned; the changelog output is set only when every build, one per
\* entry, has returned; a build starts only when the build before it has
\* returned
C21_StagesInSequence ==
  /\ [](/\ lookups # <<>> => builds[1].ret # None
        /\ \A j \in 1..Len(lookups) :
             /\ \A i \in 1..(PathPos(lookups[j].path) - 1) :
                  Processed(loaded.submodule_paths[i])
             /\ \A h \in 1..j :
                  PathPos(lookups[h].path) <= PathPos(lookups[j].path)
        /\ Len(builds) >= 2 =>
             /\ pc \notin {"getSubmodules", "fetchHead", "fetchBase"}
             /\ \A i \in 1..Len(loaded.submodule_paths) :
                  Processed(loaded.submodule_paths[i])
             /\ EarlierBuildsReturned
        /\ outputs.changelog # None =>
             /\ Len(builds) = 1 + Len(modsInfo)
             /\ \A k \in BuildIds : builds[k].ret # None)
  /\ [][Len(builds') > Len(builds) =>
          Current.ret # None /\ pc = "nested"]_vars

\* C21 witness: a run over two paths, both resolved, has made its four
\* lookups and its three builds and has set the changelog output
C21_Witness ==
  /\ outputs.changelog # None
  /\ Len(lookups) = 4
  /\ Len(modsInfo) = 2
  /\ Len(builds) = 3

\* the pointer found at toTag names a repository that getRepoInfo accepts
HeadParses ==
  IsSubmodule(headRef) /\ getRepoInfo(headRef.submodule_git_url).kind = "info"

\* C22: the step in which the lookup at fromTag fails, for a path whose
\* pointer at toTag parses, adds an entry with baseRef = headRef = the sha at
\* toTag, logs the warning, reports no error and does not end the run,
\* whatever failOnError is; a failed lookup at toTag is the last lookup of
\* the run: the run is over and failed with that error, and no nested build
\* is made and no changelog set
C22_LookupsNotTreatedAlike ==
  /\ [][(pc = "fetchBase" /\ HeadParses /\ lookups'[Len(lookups)].threw) =>
          /\ Len(modsInfo') = Len(modsInfo) + 1
          /\ modsInfo'[Len(modsInfo')].path = paths[pathIdx]
          /\ modsInfo'[Len(modsInfo')].baseRef = headRef.sha
          /\ modsInfo'[Len(modsInfo')].headRef = headRef.sha
          /\ Message("Unable to find base ref", paths[pathIdx]) \in warnings'
          /\ errors' = errors
          /\ failed' = None
          /\ pc' \in {"fetchHead", "nested"}]_vars
  /\ [](\A j \in 1..Len(lookups) :
          (lookups[j].at = "toTag" /\ lookups[j].threw) =>
            /\ j = Len(lookups)
            /\ pc = "end"
            /\ failed = Some(Message("Not Found", lookups[j].path))
            /\ Len(builds) = 1
            /\ outputs.changelog = None)

\* C22 witness: in a strict run the lookup at fromTag failed for the first
\* path, which got an entry with baseRef = headRef and its nested build, and
\* the lookup at toTag failed for no path
C22_Witness ==
  /\ inputs.failOnError
  /\ Len(modsInfo) >= 1
  /\ modsInfo[1].baseRef = modsInfo[1].headRef
  /\ \E j \in 1..Len(lookups) :
       /\ lookups[j].path = modsInfo[1].path
       /\ lookups[j].at = "fromTag" /\ lookups[j].threw
  /\ Len(builds) >= 2

\* getSubmodules has been called
Detected == pathIdx >= 1

\* the steps a build may still take from where it is
BuildSteps ==
  CASE pc = "build" -> 20
    [] pc = "retrieveRange" -> 19
    [] pc = "checkTags" -> 18
    [] pc = "getDiff" -> 17
    [] pc = "getBetweenDates" -> 16
    [] pc = "getOpen" -> 15
    [] pc = "getReviewers" -> Len(local.prs) - local.revIdx + 1
    [] OTHER -> 0

\* a bound on the steps the run may still take: what is left of the build
\* in progress, two lookups for each path still to look up, a build and the
\* step that starts it for each entry still to build or still to come, the
\* end of the loop and the outputs
StepsLeft ==
  LET P == Len(loaded.submodule_paths)
      n == Len(modsInfo)
      each == 22
  IN  CASE pc = "end" -> 0
        [] pc = "setOutput" -> 1
        [] pc = "nested" -> (n - subIdx + 1) * each + 2
        [] pc = "fetchBase" -> 2 * (P - pathIdx) + 1 + P * each + 2
        [] pc = "fetchHead" -> 2 * (P - pathIdx) + 2 + P * each + 2
        [] pc = "getSubmodules" -> 2 * P + P * each + 3
        [] OTHER ->
             IF builder.kind = "top"
             THEN BuildSteps + 2 * P + P * each + 3
             ELSE BuildSteps + (n - subIdx) * each + 2

\* the positions at which a step of the run is waiting to be taken
Waiting ==
  {"build", "retrieveRange", "checkTags", "getDiff", "getBetweenDates",
   "getOpen", "getReviewers", "getSubmodules", "fetchHead", "fetchBase",
   "nested", "setOutput"}

\* C23: getSubmodules is entered once, from the top-level build, and no step
\* of a nested build makes a lookup; there are never more builds than one
\* plus the entries, and exactly that many, after one call of getSubmodules,
\* when the changelog is set; every step brings the run closer to its end
\* by a bound that starts from the number of configured paths, and a run
\* that is not at its end is at a position where a step is waiting
C23_OneDetectionFinitelyManyBuilds ==
  /\ [][(pc # "getSubmodules" /\ pc' = "getSubmodules") =>
          /\ builder.kind = "top"
          /\ Len(builds) = 1
          /\ ~Detected]_vars
  /\ [][builder.kind = "nested" => lookups' = lookups]_vars
  /\ [](/\ Len(builds) <= 1 + Len(modsInfo)
        /\ \A k \in 2..Len(builds) : builds[k].kind = "nested"
        /\ outputs.changelog # None =>
             Detected /\ Len(builds) = 1 + Len(modsInfo))
  /\ [](StepsLeft \in Nat /\ (pc # "end" => pc \in Waiting /\ StepsLeft > 0))
  /\ [][StepsLeft' < StepsLeft]_vars

\* C23 witness: a run that found two submodules has come to its end after
\* three builds
C23_Witness ==
  /\ pc = "end"
  /\ failed = None
  /\ Len(modsInfo) = 2
  /\ Len(builds) = 3

\* what the top-level build returned, as run() spells it in its changelog
TopLevelText == builds[1].ret[1]

\* the notes of the nested builds in the order of the entries, each followed
\* by a line break
RECURSIVE NestedNotes(_)
NestedNotes(k) ==
  IF k > Len(builds) THEN <<>>
  ELSE <<Str(builds[k].ret[1]), Newline>> \o NestedNotes(k + 1)

\* C24: the output file is only written by the step that sets the changelog
\* output and only when outputFile is non-empty, and the text written is the
\* text of the changelog output: the top-level result alone when no submodule
\* resolved, and otherwise the top-level result, a line break and the notes
\* of the nested builds
C24_FileHoldsChangelogOutput ==
  /\ [](outFile # None =>
          /\ pc = "end"
          /\ failed = None
          /\ outFile = outputs.changelog
          /\ outFile[1] = IF Len(modsInfo) > 0
                          THEN <<Str(TopLevelText), Newline>> \o NestedNotes(2)
                          ELSE <<TopLevelText>>)
  /\ [][outFile' # outFile => pc = "setOutput" /\ outFile = None]_vars

\* C24 witness: a run with a resolved submodule whose nested build returned
\* text has written its output file
C24_Witness ==
  /\ outFile # None
  /\ Len(modsInfo) > 0
  /\ Len(builds) = 1 + Len(modsInfo)
  /\ builds[1].ret[1] # Null
  /\ builds[2].ret[1] # Null
\* the requests of a build whose failure no code of the build catches
Uncaught == {"retrieveRange", "getBetweenDates", "getOpen"}

\* a request of build k has failed and nothing between it and run() caught it
BuildThrew(k) == builds[k].thrown \cap Uncaught # {}

\* the lookup at toTag of a path has failed
HeadLookupThrew(j) == lookups[j].at = "toTag" /\ lookups[j].threw

\* C25: once a request that nothing below run() catches has failed, in the
\* top-level build, in a nested build or in the lookup of a path at toTag,
\* the run is at its end and marked failed with the message of that failure,
\* the changelog output is not set and no file is written, whatever the
\* builds before had returned; and a run marked failed for any reason takes
\* no further step and has neither the output nor the file
C25_ThrowDiscardsEverything ==
  /\ [](\A k \in BuildIds :
          BuildThrew(k) =>
            /\ k = Len(builds)
            /\ builds[k].ret = None
            /\ failed = Some(Message("request failed", "")))
  /\ [](\A j \in 1..Len(lookups) :
          HeadLookupThrew(j) =>
            /\ j = Len(lookups)
            /\ failed = Some(Message("Not Found", lookups[j].path)))
  /\ [](failed # None =>
          /\ pc = "end"
          /\ outputs.changelog = None
          /\ outFile = None)
  /\ [][failed = None /\ failed' # None =>
          /\ outputs'.changelog = None
          /\ outFile' = outFile
          /\ result' = result
          /\ appendix' = appendix]_vars
  /\ [][failed = None]_vars

\* C25 witness: the second nested build lost a request after the top-level
\* build and the first nested build had both returned text
C25_Witness ==
  /\ Len(builds) = 3
  /\ BuildThrew(3)
  /\ builds[1].ret # None /\ builds[1].ret[1] # Null
  /\ builds[2].ret # None /\ builds[2].ret[1] # Null
  /\ appendix # <<>>
====
